---- MODULE Spec2Model ----
(***************************************************************************)
(* A model of the retrieval pipeline of the MVP RAG chatbot:                *)
(*   src/utils.py  chunk_text, get_embedding, cosine_similarity,           *)
(*                 extract_text_from_pdf, fetch_url_text, generate_answer  *)
(*   src/main.py   DocumentChunk, InteractionLog, log_event, upload_pdf,   *)
(*                 ingest_url, ask_question                                *)
(*                                                                         *)
(* A text is a sequence of tokens.  A token is one character ("a", " ",    *)
(* "\n", ...) or, for the fixed literals of the program, the whole literal.*)
(* A float score x is represented exactly by the fraction sgn(x)*x^2,      *)
(* which orders and equates scores as the real numbers do.                 *)
(***************************************************************************)
EXTENDS Integers, Sequences, FiniteSets, TLC

\* ------------------------------------------------------------------ bounds

\* Longest input text and widest window explored for chunk_text on its own.
MaxLen == 4
MaxWidth == 3
\* Number of requests served, all of them possibly at the same time, in one
\* behaviour of the service.
MaxReqs == 2
\* The window width the handlers chunk with: chunk_text's default max_chars
\* (800 in src/utils.py:26) scaled down to the size of the modelled documents.
MaxChars == 2
\* Largest snapshot of the store a query is run against on its own.
MaxRows == 4

\* ------------------------------------------------------------------- texts

Chars == {"a", "b", " ", "\n", "\r", "\t"}

\* The characters str.strip() removes, among Chars.
Whitespace == {" ", "\t", "\n", "\r"}

Min(a, b) == IF a < b THEN a ELSE b

\* Code point of a character (str comparison compares code points).
Ord(c) ==
  CASE c = "\t" -> 9
    [] c = "\n" -> 10
    [] c = "\r" -> 13
    [] c = " " -> 32
    [] c = "a" -> 97
    [] c = "b" -> 98
    [] OTHER -> 0

\* a < b on str: the first differing character decides, a proper prefix is less.
RECURSIVE TextLess(_, _)
TextLess(a, b) ==
  IF b = <<>> THEN FALSE
  ELSE IF a = <<>> THEN TRUE
  ELSE IF Head(a) # Head(b) THEN Ord(Head(a)) < Ord(Head(b))
  ELSE TextLess(Tail(a), Tail(b))

\* text.replace("\r", " ").replace("\n", " ")
Normalize(text) ==
  [i \in 1..Len(text) |-> IF text[i] \in {"\r", "\n"} THEN " " ELSE text[i]]

RECURSIVE LStrip(_)
LStrip(s) ==
  IF s # <<>> /\ Head(s) \in Whitespace THEN LStrip(Tail(s)) ELSE s

RECURSIVE RStrip(_)
RStrip(s) ==
  IF s # <<>> /\ s[Len(s)] \in Whitespace
  THEN RStrip(SubSeq(s, 1, Len(s) - 1)) ELSE s

\* str.strip()
Strip(s) == RStrip(LStrip(s))

\* text[i:i + max_chars] for the 0-based offset i
Window(text, i, max_chars) == SubSeq(text, i + 1, Min(i + max_chars, Len(text)))

\* range(0, len(text), max_chars)
Offsets(text, max_chars) ==
  [k \in 1..((Len(text) + max_chars - 1) \div max_chars) |-> (k - 1) * max_chars]

RECURSIVE Comprehend(_, _, _)
Comprehend(text, offs, max_chars) ==
  IF offs = <<>> THEN <<>>
  ELSE LET w == Strip(Window(text, Head(offs), max_chars))
       IN (IF w # <<>> THEN <<w>> ELSE <<>>)
            \o Comprehend(text, Tail(offs), max_chars)

\* A chunker that keeps the raw windows: no strip, no filter.
chunk_text_raw(text, max_chars) ==
  LET t == Normalize(text)
      o == Offsets(t, max_chars)
  IN [k \in 1..Len(o) |-> Window(t, o[k], max_chars)]

chunk_text(text, max_chars) ==
  LET t == Normalize(text)
  IN Comprehend(t, Offsets(t, max_chars), max_chars)

\* ----------------------------------------------------------------- vectors

\* The vectors the embedding collaborator answers the service's requests
\* with.  Its dimensionality is whatever the configured model
\* (GENAI_EMBEDDING_MODEL) produces, so vectors of two lengths occur.
Vectors == {<<1, 0>>, <<0, 0>>, <<1>>}

\* The vectors explored when a query ranks a given snapshot.
RankVectors == {<<0, 0>>, <<1, 1>>, <<-1, 0>>, <<1>>}

\* The text of a number, and the number of a text (json's number syntax).
NumTok(n) ==
  CASE n = -1 -> "-1" [] n = 0 -> "0" [] n = 1 -> "1" [] OTHER -> "2"

TokNum(t) ==
  CASE t = "-1" -> -1 [] t = "0" -> 0 [] t = "1" -> 1 [] OTHER -> 2

\* json.dumps(emb): "[" x1 ", " x2 ... "]"
json_dumps(emb) ==
  <<"[">> \o [k \in 1..(2 * Len(emb) - 1) |->
                IF k % 2 = 1 THEN NumTok(emb[(k + 1) \div 2]) ELSE ", "]
          \o <<"]">>

\* json.loads(d.embedding)
json_loads(s) ==
  LET nums == SelectSeq(s, LAMBDA t : t \notin {"[", "]", ", "})
  IN [k \in 1..Len(nums) |-> TokNum(nums[k])]

RECURSIVE SumTo(_, _)
SumTo(f, n) == IF n = 0 THEN 0 ELSE f[n] + SumTo(f, n - 1)

Sgn(x) == IF x < 0 THEN -1 ELSE IF x > 0 THEN 1 ELSE 0

\* The score x = dot / (norm_a * norm_b) as the fraction <<p, q>> = sgn(x)*x^2,
\* q > 0; zip(a, b) stops at the shorter of the two vectors.
cosine_similarity(a, b) ==
  LET n == Min(Len(a), Len(b))
      dot == SumTo([i \in 1..n |-> a[i] * b[i]], n)
      na2 == SumTo([i \in 1..Len(a) |-> a[i] * a[i]], Len(a))
      nb2 == SumTo([i \in 1..Len(b) |-> b[i] * b[i]], Len(b))
  IN IF na2 = 0 \/ nb2 = 0 THEN <<0, 1>>
     ELSE <<Sgn(dot) * dot * dot, na2 * nb2>>

ScoreLess(s, t) == s[1] * t[2] < t[1] * s[2]
ScoreEq(s, t) == s[1] * t[2] = t[1] * s[2]

\* (score, text) < (score', text') on tuples.  The id that rides along with a
\* scored entry is not part of the tuple the program sorts.
TupleLess(x, y) ==
  \/ ScoreLess(x.score, y.score)
  \/ ScoreEq(x.score, y.score) /\ TextLess(x.text, y.text)

RECURSIVE InsertDesc(_, _)
InsertDesc(sorted, x) ==
  IF sorted = <<>> THEN <<x>>
  ELSE IF TupleLess(Head(sorted), x) THEN <<x>> \o sorted
  ELSE <<Head(sorted)>> \o InsertDesc(Tail(sorted), x)

RECURSIVE SortedReverse(_)
\* sorted(scored, reverse=True): descending, equal tuples keep their order.
SortedReverse(scored) ==
  IF scored = <<>> THEN <<>>
  ELSE InsertDesc(SortedReverse(SubSeq(scored, 1, Len(scored) - 1)),
                  scored[Len(scored)])

\* The [:3] of ask_question.
TopK == 3

\* scored, as ask_question builds it from the snapshot docs.
Scored(q, ds) ==
  [i \in 1..Len(ds) |->
     [score |-> cosine_similarity(q, json_loads(ds[i].embedding)),
      text |-> ds[i].chunk_text, id |-> ds[i].id]]

\* A ranking that forgets reverse=True.
RankAscending(q, ds) ==
  LET s == SortedReverse(Scored(q, ds))
      a == [i \in 1..Len(s) |-> s[Len(s) + 1 - i]]
  IN SubSeq(a, 1, Min(TopK, Len(a)))

\* sorted(scored, reverse=True)[:3]
Rank(q, ds) ==
  LET s == SortedReverse(Scored(q, ds))
  IN SubSeq(s, 1, Min(TopK, Len(s)))

RECURSIVE Join(_, _)
\* sep.join(parts)
Join(sep, parts) ==
  IF parts = <<>> THEN <<>>
  ELSE IF Len(parts) = 1 THEN parts[1]
  ELSE parts[1] \o sep \o Join(sep, Tail(parts))

\* ------------------------------------------------------------------- state

Reqs == 1..MaxReqs

\* The texts the extraction collaborators (extract_text_from_pdf,
\* fetch_url_text) hand to a handler.
Docs == {<<>>, <<" ", "\n">>, <<"a">>, <<"a", "\n", "b", "b", "a">>}

\* The texts the generation collaborator's response parts join to.
GenTexts == {<<>>, <<" ", "\n">>, <<" ", "o", "k", "\n">>}

NoData == <<"No data found. Upload PDF first.">>
FailNotice == <<"Answer generation failed; showing raw context instead.\n\n">>
NoAnswer == <<"No answer generated.">>
BlankLine == <<"\n", "\n">>

VARIABLES
  store,     \* the committed rows of document_chunks, in id order
  log,       \* the committed rows of interaction_logs, in id order
  pc,        \* where each request is
  kind,      \* the handler serving it: "pdf", "url", "ask" ("none" before)
  chunks,    \* chunks = chunk_text(text) of an ingestion
  embs,      \* the vectors get_embedding has returned to it, in call order
  session,   \* the objects added to its Session and not yet committed
  q_emb,     \* ask_question: the question's vector
  docs,      \* ask_question: the snapshot db.query(DocumentChunk).all()
  top,       \* ask_question: sorted(scored, reverse=True)[:3], ids attached
  calls,     \* the steps the request has taken, in order
  resp,      \* what the request returned or raised
  cin,       \* chunk_text on its own: the text
  cwidth,    \* chunk_text on its own: max_chars
  cout,      \* chunk_text on its own: the result
  cpc        \* chunk_text on its own: "call" before, "done" after

svars == <<store, log, pc, kind, chunks, embs, session, q_emb, docs,
           top, calls, resp>>
cvars == <<cin, cwidth, cout, cpc>>
vars == <<svars, cvars>>

InitService ==
  /\ log = <<>>
  /\ pc = [r \in Reqs |-> "idle"]
  /\ kind = [r \in Reqs |-> "none"]
  /\ chunks = [r \in Reqs |-> <<>>]
  /\ embs = [r \in Reqs |-> <<>>]
  /\ session = [r \in Reqs |-> <<>>]
  /\ q_emb = [r \in Reqs |-> <<>>]
  /\ docs = [r \in Reqs |-> <<>>]
  /\ top = [r \in Reqs |-> <<>>]
  /\ calls = [r \in Reqs |-> <<>>]
  /\ resp = [r \in Reqs |-> [status |-> "none"]]

Init ==
  /\ InitService
  /\ store = <<>>
  /\ cin = <<>> /\ cwidth = 1 /\ cout = <<>> /\ cpc = "done"

\* Requests are named in the order they arrive.
Arrives(r) == pc[r] = "idle" /\ \A q \in 1..(r - 1) : pc[q] # "idle"

\* ------------------------------------------------------------ persistence

\* DocumentChunk(source_type=..., source=..., chunk_text=ch,
\*               embedding=json.dumps(emb)); request r's file name or URL is r.
DocumentChunk(source_type, source, ch, emb) ==
  [source_type |-> source_type, source |-> source, chunk_text |-> ch,
   embedding |-> json_dumps(emb)]

\* log_event(db, event_type, payload): the InteractionLog row it adds.
log_event(event_type, payload) ==
  [event_type |-> event_type, payload |-> payload]

\* The primary keys a flush gives n new rows of document_chunks.
NewIds(n) == [k \in 1..n |-> Len(store) + k]

\* The rows of a session as the commit inserts them.
Inserted(sess) ==
  [k \in 1..Len(sess) |->
     [id |-> NewIds(Len(sess))[k], source_type |-> sess[k].source_type,
      source |-> sess[k].source, chunk_text |-> sess[k].chunk_text,
      embedding |-> sess[k].embedding]]

\* chunk_details, as the loops build it.
ChunkDetails(chs) ==
  [k \in 1..Len(chs) |-> [length |-> Len(chs[k]), preview |-> chs[k]]]

\* db: Session = Depends(get_db): each request works on a session of its own,
\* which is closed without a commit when the handler raises.
get_db(r) == session[r]
get_db_close(r) == session' = [session EXCEPT ![r] = <<>>]

Raise(r, code) ==
  /\ pc' = [pc EXCEPT ![r] = "error"]
  /\ resp' = [resp EXCEPT ![r] = [status |-> "error", code |-> code]]
  /\ get_db_close(r)

\* -------------------------------------------------------------- upload_pdf

\* file.read(), extract_text_from_pdf (PdfReader raises on a broken file),
\* chunk_text(text); then the loop, or past it when there is no chunk.
upload_pdf(r) ==
  /\ Arrives(r)
  /\ kind' = [kind EXCEPT ![r] = "pdf"]
  /\ \/ /\ Raise(r, 500)
        /\ calls' = [calls EXCEPT ![r] = <<"extract">>]
        /\ UNCHANGED chunks
     \/ \E t \in Docs :
          /\ chunks' = [chunks EXCEPT ![r] = chunk_text(t, MaxChars)]
          /\ calls' = [calls EXCEPT ![r] = <<"extract", "chunk">>]
          /\ pc' = [pc EXCEPT ![r] =
                      IF chunk_text(t, MaxChars) = <<>> THEN "commit" ELSE "embed"]
          /\ UNCHANGED <<resp, session>>
  /\ UNCHANGED <<store, log, embs, q_emb, docs, top, cvars>>

\* A loop body that commits each chunk as it is added.
upload_pdf_loop_commits(r, emb) ==
  /\ pc[r] = "embed" /\ kind[r] = "pdf"
  /\ LET ch == chunks[r][Len(embs[r]) + 1]
     IN /\ store' = store \o Inserted(<<DocumentChunk("pdf", r, ch, emb)>>)
        /\ embs' = [embs EXCEPT ![r] = Append(@, emb)]
        /\ calls' = [calls EXCEPT ![r] = @ \o <<"embed", "add">>]
        /\ pc' = [pc EXCEPT ![r] =
                    IF Len(embs[r]) + 1 = Len(chunks[r]) THEN "commit" ELSE "embed"]
  /\ UNCHANGED <<session, log, kind, chunks, q_emb, docs, top, resp, cvars>>

\* One turn of "for ch in chunks": get_embedding(ch) returned emb, db.add.
upload_pdf_loop(r, emb) ==
  /\ pc[r] = "embed" /\ kind[r] = "pdf"
  /\ LET ch == chunks[r][Len(embs[r]) + 1]
     IN /\ session' = [session EXCEPT ![r] =
                         Append(@, DocumentChunk("pdf", r, ch, emb))]
        /\ embs' = [embs EXCEPT ![r] = Append(@, emb)]
        /\ calls' = [calls EXCEPT ![r] = @ \o <<"embed", "add">>]
        /\ pc' = [pc EXCEPT ![r] =
                    IF Len(embs[r]) + 1 = Len(chunks[r]) THEN "commit" ELSE "embed"]
  /\ UNCHANGED <<store, log, kind, chunks, q_emb, docs, top, resp, cvars>>

\* get_embedding(ch) raised inside the loop: the handler ends there.
upload_pdf_embed_raises(r) ==
  /\ pc[r] = "embed" /\ kind[r] = "pdf"
  /\ Raise(r, 500)
  /\ calls' = [calls EXCEPT ![r] = Append(@, "embed")]
  /\ UNCHANGED <<store, log, kind, chunks, embs, q_emb, docs, top, cvars>>

\* log_event(db, "pdf_upload", ...); db.commit(); return.
upload_pdf_commit(r) ==
  /\ pc[r] = "commit" /\ kind[r] = "pdf"
  /\ store' = store \o Inserted(get_db(r))
  /\ log' = Append(log, log_event("pdf_upload",
                [filename |-> r, chunk_count |-> Len(chunks[r]),
                 chunk_details |-> ChunkDetails(chunks[r])]))
  /\ session' = [session EXCEPT ![r] = <<>>]
  /\ calls' = [calls EXCEPT ![r] = @ \o <<"log", "commit">>]
  /\ pc' = [pc EXCEPT ![r] = "done"]
  /\ resp' = [resp EXCEPT ![r] =
                [status |-> "ok", stored_chunks |-> Len(chunks[r])]]
  /\ UNCHANGED <<kind, chunks, embs, q_emb, docs, top, cvars>>

\* -------------------------------------------------------------- ingest_url

\* fetch_url_text raising, blank text and an empty chunk list each end in a
\* 400; otherwise the loop starts.
ingest_url(r) ==
  /\ Arrives(r)
  /\ kind' = [kind EXCEPT ![r] = "url"]
  /\ \/ /\ Raise(r, 400)
        /\ calls' = [calls EXCEPT ![r] = <<"extract">>]
        /\ UNCHANGED chunks
     \/ \E t \in Docs :
          /\ IF Strip(t) = <<>>
             THEN /\ Raise(r, 400)
                  /\ calls' = [calls EXCEPT ![r] = <<"extract">>]
                  /\ UNCHANGED chunks
             ELSE /\ chunks' = [chunks EXCEPT ![r] = chunk_text(t, MaxChars)]
                  /\ calls' = [calls EXCEPT ![r] = <<"extract", "chunk">>]
                  /\ IF chunk_text(t, MaxChars) = <<>>
                     THEN Raise(r, 400)
                     ELSE /\ pc' = [pc EXCEPT ![r] = "embed"]
                          /\ UNCHANGED <<resp, session>>
  /\ UNCHANGED <<store, log, embs, q_emb, docs, top, cvars>>

\* A loop body that stores the first chunk's text with every vector.
ingest_url_loop_first(r, emb) ==
  /\ pc[r] = "embed" /\ kind[r] = "url"
  /\ session' = [session EXCEPT ![r] =
                   Append(@, DocumentChunk("web", r, chunks[r][1], emb))]
  /\ embs' = [embs EXCEPT ![r] = Append(@, emb)]
  /\ calls' = [calls EXCEPT ![r] = @ \o <<"embed", "add">>]
  /\ pc' = [pc EXCEPT ![r] =
              IF Len(embs[r]) + 1 = Len(chunks[r]) THEN "commit" ELSE "embed"]
  /\ UNCHANGED <<store, log, kind, chunks, q_emb, docs, top, resp, cvars>>

\* One turn of "for ch in chunks": get_embedding(ch) returned emb, db.add.
ingest_url_loop(r, emb) ==
  /\ pc[r] = "embed" /\ kind[r] = "url"
  /\ LET ch == chunks[r][Len(embs[r]) + 1]
     IN /\ session' = [session EXCEPT ![r] =
                         Append(@, DocumentChunk("web", r, ch, emb))]
        /\ embs' = [embs EXCEPT ![r] = Append(@, emb)]
        /\ calls' = [calls EXCEPT ![r] = @ \o <<"embed", "add">>]
        /\ pc' = [pc EXCEPT ![r] =
                    IF Len(embs[r]) + 1 = Len(chunks[r]) THEN "commit" ELSE "embed"]
  /\ UNCHANGED <<store, log, kind, chunks, q_emb, docs, top, resp, cvars>>

\* get_embedding(ch) raised inside the loop: the handler ends there.
ingest_url_embed_raises(r) ==
  /\ pc[r] = "embed" /\ kind[r] = "url"
  /\ Raise(r, 500)
  /\ calls' = [calls EXCEPT ![r] = Append(@, "embed")]
  /\ UNCHANGED <<store, log, kind, chunks, embs, q_emb, docs, top, cvars>>

\* log_event(db, "url_ingest", ...); db.commit(); return.
ingest_url_commit(r) ==
  /\ pc[r] = "commit" /\ kind[r] = "url"
  /\ store' = store \o Inserted(get_db(r))
  /\ log' = Append(log, log_event("url_ingest",
                [url |-> r, source_type |-> "web",
                 chunk_count |-> Len(chunks[r]),
                 chunk_details |-> ChunkDetails(chunks[r])]))
  /\ session' = [session EXCEPT ![r] = <<>>]
  /\ calls' = [calls EXCEPT ![r] = @ \o <<"log", "commit">>]
  /\ pc' = [pc EXCEPT ![r] = "done"]
  /\ resp' = [resp EXCEPT ![r] =
                [status |-> "ok", stored_chunks |-> Len(chunks[r])]]
  /\ UNCHANGED <<kind, chunks, embs, q_emb, docs, top, cvars>>

\* ------------------------------------------------------------ ask_question

\* The text generate_answer returns when the model's response parts join to
\* raw: text.strip() or "No answer generated."
generate_answer(context, question, raw) ==
  IF Strip(raw) # <<>> THEN Strip(raw) ELSE NoAnswer

\* The request arrives and get_embedding(payload.question) raises.
ask_question_embed_raises(r) ==
  /\ Arrives(r)
  /\ kind' = [kind EXCEPT ![r] = "ask"]
  /\ Raise(r, 500)
  /\ calls' = [calls EXCEPT ![r] = Append(@, "embed")]
  /\ UNCHANGED <<store, log, chunks, embs, q_emb, docs, top, cvars>>

\* A read that ranks before it looks whether there are documents.
ask_question_read_ranks_first(r, emb) ==
  /\ Arrives(r)
  /\ kind' = [kind EXCEPT ![r] = "ask"]
  /\ q_emb' = [q_emb EXCEPT ![r] = emb]
  /\ docs' = [docs EXCEPT ![r] = store]
  /\ top' = [top EXCEPT ![r] = Rank(emb, store)]
  /\ calls' = [calls EXCEPT ![r] = @ \o <<"embed", "read", "rank">>]
  /\ IF store = <<>>
     THEN /\ pc' = [pc EXCEPT ![r] = "done"]
          /\ resp' = [resp EXCEPT ![r] = [status |-> "ok", answer |-> NoData]]
     ELSE /\ pc' = [pc EXCEPT ![r] = "gen"]
          /\ UNCHANGED resp
  /\ UNCHANGED <<store, log, chunks, embs, session, cvars>>

\* The request arrives, get_embedding returns emb; docs = db.query(DocumentChunk).all(); without
\* docs the no-data answer is returned, otherwise scored, top and context
\* are built and generate_answer is called.
ask_question_read(r, emb) ==
  /\ Arrives(r)
  /\ kind' = [kind EXCEPT ![r] = "ask"]
  /\ q_emb' = [q_emb EXCEPT ![r] = emb]
  /\ docs' = [docs EXCEPT ![r] = store]
  /\ IF store = <<>>
     THEN /\ pc' = [pc EXCEPT ![r] = "done"]
          /\ resp' = [resp EXCEPT ![r] = [status |-> "ok", answer |-> NoData]]
          /\ calls' = [calls EXCEPT ![r] = @ \o <<"embed", "read">>]
          /\ UNCHANGED top
     ELSE /\ top' = [top EXCEPT ![r] = Rank(emb, store)]
          /\ calls' = [calls EXCEPT ![r] = @ \o <<"embed", "read", "rank">>]
          /\ pc' = [pc EXCEPT ![r] = "gen"]
          /\ UNCHANGED resp
  /\ UNCHANGED <<store, log, chunks, embs, session, cvars>>

\* top = [text for s, text in ...]
TopTexts(r) == [i \in 1..Len(top[r]) |-> top[r][i].text]

\* context = "\n\n".join(top)
Context(r) == Join(BlankLine, TopTexts(r))

\* The tail of the handler once answer_text is known: log_event, db.commit,
\* the response.
Answer(r, answer_text) ==
  /\ log' = Append(log, log_event("question",
                [question |-> r, context_used |-> TopTexts(r),
                 answer |-> answer_text]))
  /\ pc' = [pc EXCEPT ![r] = "done"]
  /\ resp' = [resp EXCEPT ![r] =
                [status |-> "ok", context_used |-> TopTexts(r),
                 answer |-> answer_text]]
  /\ UNCHANGED <<store, kind, chunks, embs, session, q_emb, docs, top,
                 cvars>>

\* A fallback that returns the context without the notice.
FallbackBare(r) == Context(r)

\* except Exception: the notice, then the context.
Fallback(r) == FailNotice \o Context(r)

\* generate_answer raised (the model call failed, or it answered with no
\* candidate).
ask_question_generate_raises(r) ==
  /\ pc[r] = "gen"
  /\ calls' = [calls EXCEPT ![r] = @ \o <<"generate_raises", "log", "commit">>]
  /\ Answer(r, Fallback(r))

\* An answer that passes the model's text on as it is.
GeneratedRaw(r, raw) == raw

\* answer_text = generate_answer(context, payload.question)
Generated(r, raw) == generate_answer(Context(r), r, raw)

\* generate_answer returned.
ask_question_generate(r, raw) ==
  /\ pc[r] = "gen"
  /\ calls' = [calls EXCEPT ![r] = @ \o
       <<IF Strip(raw) = <<>> THEN "generate_empty" ELSE "generate_text",
         "log", "commit">>]
  /\ Answer(r, Generated(r, raw))

\* ------------------------------------------------------------------- specs

Next ==
  \/ \E r \in Reqs : upload_pdf(r)
  \/ \E r \in Reqs, emb \in Vectors : upload_pdf_loop(r, emb)
  \/ \E r \in Reqs : upload_pdf_embed_raises(r)
  \/ \E r \in Reqs : upload_pdf_commit(r)
  \/ \E r \in Reqs : ingest_url(r)
  \/ \E r \in Reqs, emb \in Vectors : ingest_url_loop(r, emb)
  \/ \E r \in Reqs : ingest_url_embed_raises(r)
  \/ \E r \in Reqs : ingest_url_commit(r)
  \/ \E r \in Reqs : ask_question_embed_raises(r)
  \/ \E r \in Reqs, emb \in Vectors : ask_question_read(r, emb)
  \/ \E r \in Reqs : ask_question_generate_raises(r)
  \/ \E r \in Reqs, raw \in GenTexts : ask_question_generate(r, raw)

Spec == Init /\ [][Next]_vars

\* One query against a given snapshot of the store: any rows earlier
\* ingestions can have committed, ids in insertion order.
\* The (text, vector) pairs its rows are drawn from: a zero vector, a
\* vector shorter than the others, a vector under two texts.
RankRows ==
  {<< <<"a">>, <<0, 0>> >>, << <<"a">>, <<1, 1>> >>, << <<"b">>, <<1, 1>> >>,
   << <<"a">>, <<-1, 0>> >>, << <<"b">>, <<-1, 0>> >>, << <<"b">>, <<1>> >>}

\* The rows whose texts and vectors are f[1], f[2], ..., in id order.
Snapshot(f) ==
  [i \in DOMAIN f |-> [id |-> i, source_type |-> "pdf", source |-> 0,
                       chunk_text |-> f[i][1],
                       embedding |-> json_dumps(f[i][2])]]

InitAsk ==
  /\ InitService
  /\ \E n \in 0..MaxRows :
       \E f \in [1..n -> RankRows] : store = Snapshot(f)
  /\ cin = <<>> /\ cwidth = 1 /\ cout = <<>> /\ cpc = "done"

NextAsk ==
  \/ ask_question_embed_raises(1)
  \/ \E emb \in RankVectors : ask_question_read(1, emb)
  \/ ask_question_generate_raises(1)
  \/ \E raw \in GenTexts : ask_question_generate(1, raw)

SpecAsk == InitAsk /\ [][NextAsk]_vars

\* chunk_text on its own, over every text and width within the bounds.
Texts == UNION {[1..n -> Chars] : n \in 0..MaxLen}

InitChunk ==
  /\ InitService
  /\ store = <<>>
  /\ cin \in Texts
  /\ cwidth \in 1..MaxWidth
  /\ cout = <<>>
  /\ cpc = "call"

chunk_text_call ==
  /\ cpc = "call"
  /\ cout' = chunk_text(cin, cwidth)
  /\ cpc' = "done"
  /\ UNCHANGED <<cin, cwidth, svars>>

NextChunk == chunk_text_call

SpecChunk == InitChunk /\ [][NextChunk]_vars

\* ------------------------------------------------------------------ claims

Ingest(r) == kind[r] \in {"pdf", "url"}
Finished(r) == pc[r] \in {"done", "error"}

\* What a reader of the two tables sees of request r.
RowsOf(r) == SelectSeq(store, LAMBDA d : d.source = r)
IsIngestEventOf(e, r) ==
  \/ e.event_type = "pdf_upload" /\ e.payload.filename = r
  \/ e.event_type = "url_ingest" /\ e.payload.url = r
IsQuestionEventOf(e, r) ==
  e.event_type = "question" /\ e.payload.question = r
IngestEventsOf(r) == SelectSeq(log, LAMBDA e : IsIngestEventOf(e, r))
QuestionEventsOf(r) == SelectSeq(log, LAMBDA e : IsQuestionEventOf(e, r))
RowTexts(rows) == [k \in 1..Len(rows) |-> rows[k].chunk_text]
RowVectors(rows) == [k \in 1..Len(rows) |-> json_loads(rows[k].embedding)]
EmbeddingRaised(r) ==
  pc[r] = "error" /\ calls[r] # <<>> /\ calls[r][Len(calls[r])] = "embed"
Has(seq, x) == \E k \in DOMAIN seq : seq[k] = x

\* C1: in every state of the two tables, the ingest event of a request is
\* there only together with all of the request's chunks, and a chunk of the
\* request is there only together with the event (for a request with chunks
\* that is: the event is visible iff all its chunks are); the event counts
\* the chunks stored; and a request whose embedding call raised, at whichever
\* chunk, has neither a chunk nor an event in the tables.
C1_AllOrNothing ==
  \A r \in Reqs : Ingest(r) =>
    /\ Len(IngestEventsOf(r)) <= 1
    /\ IngestEventsOf(r) # <<>> =>
         /\ RowTexts(RowsOf(r)) = chunks[r]
         /\ IngestEventsOf(r)[1].payload.chunk_count = Len(RowsOf(r))
    /\ RowsOf(r) # <<>> => IngestEventsOf(r) # <<>>
    /\ EmbeddingRaised(r) => RowsOf(r) = <<>> /\ IngestEventsOf(r) = <<>>

\* An ingestion of several chunks is visible with its event while another
\* one, whose embedding call raised at a middle chunk, left nothing.
C1_Witness ==
  \E r, q \in Reqs :
    /\ Ingest(r) /\ pc[r] = "done" /\ Len(chunks[r]) >= 2
    /\ Len(RowsOf(r)) = Len(chunks[r]) /\ IngestEventsOf(r) # <<>>
    /\ Ingest(q) /\ EmbeddingRaised(q)
    /\ Len(embs[q]) >= 1 /\ Len(embs[q]) + 1 < Len(chunks[q])

\* The score ask_question gives row d of a snapshot for the query vector q.
ScoreOf(q, d) == cosine_similarity(q, json_loads(d.embedding))
Ranked(r) == kind[r] = "ask" /\ pc[r] \in {"gen", "done"} /\ docs[r] # <<>>
InTop(r, id) == \E k \in DOMAIN top[r] : top[r][k].id = id
PosInTop(r, id) == CHOOSE k \in DOMAIN top[r] : top[r][k].id = id

\* C2: the ranked context is in descending score order, and of two rows of
\* the snapshot with the same score the one inserted earlier (smaller id)
\* comes first, whatever their texts.
C2_TiesByInsertionOrder ==
  \A r \in Reqs : Ranked(r) =>
    /\ \A i, j \in DOMAIN top[r] :
         i < j => ~ScoreLess(top[r][i].score, top[r][j].score)
    /\ \A i, j \in DOMAIN docs[r] :
         (/\ docs[r][i].id < docs[r][j].id
          /\ ScoreEq(ScoreOf(q_emb[r], docs[r][i]), ScoreOf(q_emb[r], docs[r][j]))
          /\ InTop(r, docs[r][j].id))
         => /\ InTop(r, docs[r][i].id)
            /\ PosInTop(r, docs[r][i].id) < PosInTop(r, docs[r][j].id)

\* C3: for a non-empty snapshot the ranked context has min(3, |docs|)
\* entries, each a different row of the snapshot with that row's text and
\* score, in descending score order, and no row left out scores strictly
\* higher than a row returned.
C3_TopK ==
  \A r \in Reqs : Ranked(r) =>
    /\ Len(top[r]) = Min(3, Len(docs[r]))
    /\ \A i, j \in DOMAIN top[r] : i # j => top[r][i].id # top[r][j].id
    /\ \A i \in DOMAIN top[r] :
         \E k \in DOMAIN docs[r] :
           /\ docs[r][k].id = top[r][i].id
           /\ docs[r][k].chunk_text = top[r][i].text
           /\ top[r][i].score = ScoreOf(q_emb[r], docs[r][k])
    /\ \A i, j \in DOMAIN top[r] :
         i < j => ~ScoreLess(top[r][i].score, top[r][j].score)
    /\ \A k \in DOMAIN docs[r], i \in DOMAIN top[r] :
         ~InTop(r, docs[r][k].id)
           => ~ScoreLess(top[r][i].score, ScoreOf(q_emb[r], docs[r][k]))
    /\ pc[r] = "done" => resp[r].context_used = TopTexts(r)

\* A query over four rows or more returned three rows of three different
\* scores and left out a row that scores strictly lower than all of them.
C3_Witness ==
  \E r \in Reqs :
    /\ Ranked(r) /\ pc[r] = "done" /\ Len(docs[r]) >= 4 /\ Len(top[r]) = 3
    /\ ScoreLess(top[r][2].score, top[r][1].score)
    /\ ScoreLess(top[r][3].score, top[r][2].score)
    /\ \E k \in DOMAIN docs[r] :
         /\ ~InTop(r, docs[r][k].id)
         /\ ScoreLess(ScoreOf(q_emb[r], docs[r][k]), top[r][3].score)

\* C4: an ingestion whose source gave no usable text (no chunk) ended in an
\* error and has nothing in the tables, on both ingestion paths.
C4_EmptyIngestAborts ==
  \A r \in Reqs :
    (Ingest(r) /\ Finished(r) /\ chunks[r] = <<>>)
      => pc[r] = "error" /\ RowsOf(r) = <<>> /\ IngestEventsOf(r) = <<>>

\* C5: all vectors of the store have one and the same number of components.
C5_OneDimension ==
  \A i, j \in DOMAIN store :
    Len(json_loads(store[i].embedding)) = Len(json_loads(store[j].embedding))

\* The answer the claims C6 and C7 call the fallback: the failure notice, then
\* the returned context's texts with a blank line between them.
FallbackOf(r) ==
  <<"Answer generation failed; showing raw context instead.\n\n">>
    \o Join(<<"\n", "\n">>, resp[r].context_used)
Recorded(r) ==
  /\ Len(QuestionEventsOf(r)) = 1
  /\ QuestionEventsOf(r)[1].payload.answer = resp[r].answer
  /\ QuestionEventsOf(r)[1].payload.context_used = resp[r].context_used

\* C6: a query whose generation call raised still returns success; its answer
\* is the failure notice followed by the ranked context's texts joined by a
\* blank line, in ranker order; the context returned is the ranked one; and
\* the question event is committed with that answer.
C6_GenerationFailureFallsBack ==
  \A r \in Reqs : Has(calls[r], "generate_raises") =>
    /\ pc[r] = "done" /\ resp[r].status = "ok"
    /\ resp[r].context_used = TopTexts(r)
    /\ resp[r].answer = FallbackOf(r)
    /\ Recorded(r)

\* A query whose generation call raised answered with the fallback over a
\* context of two texts or more.
C6_Witness ==
  \E r \in Reqs :
    /\ Has(calls[r], "generate_raises") /\ Len(resp[r].context_used) >= 2
    /\ resp[r].answer = FallbackOf(r)

C8_EmptyStoreNoData ==
  [][\A r \in Reqs :
       (pc[r] = "idle" /\ kind'[r] = "ask" /\ pc'[r] # "error" /\ store = <<>>)
         => /\ pc'[r] = "done"
            /\ resp'[r] = [status |-> "ok",
                           answer |-> <<"No data found. Upload PDF first.">>]
            /\ ~Has(calls'[r], "rank")
            /\ ~Has(calls'[r], "generate_raises")
            /\ ~Has(calls'[r], "generate_empty")
            /\ ~Has(calls'[r], "generate_text")
            /\ top'[r] = <<>>
            /\ store' = store /\ log' = log]_vars

\* A query that read an empty snapshot has returned.
C8_Witness ==
  \E r \in Reqs :
    /\ kind[r] = "ask" /\ pc[r] = "done" /\ docs[r] = <<>>
    /\ resp[r].answer = NoData

\* C9: the rows of the store have pairwise different ids; every ingestion
\* that has committed has all its chunks in the store, in order, each row
\* holding the text and the vector that were added together, and the store
\* holds nothing else; and every row a query has read is such a complete
\* row of some ingestion.
C9_ConcurrentAppends ==
  /\ \A i, j \in DOMAIN store : i # j => store[i].id # store[j].id
  /\ \A r \in Reqs : (Ingest(r) /\ pc[r] = "done") =>
       /\ RowTexts(RowsOf(r)) = chunks[r]
       /\ RowVectors(RowsOf(r)) = embs[r]
  /\ \A i \in DOMAIN store :
       Ingest(store[i].source) /\ pc[store[i].source] = "done"
  /\ \A r \in Reqs : \A k \in DOMAIN docs[r] :
       LET d == docs[r][k]
       IN /\ d.chunk_text # <<>> /\ json_loads(d.embedding) # <<>>
          /\ \E n \in DOMAIN chunks[d.source] :
               /\ chunks[d.source][n] = d.chunk_text
               /\ embs[d.source][n] = json_loads(d.embedding)

\* Two ingestions of several chunks each ran at the same time (the one that
\* arrived first committed last) and both have committed.
C9_Witness ==
  \E r, q \in Reqs :
    /\ r < q /\ Ingest(r) /\ Ingest(q) /\ pc[r] = "done" /\ pc[q] = "done"
    /\ Len(chunks[r]) >= 2 /\ Len(chunks[q]) >= 2
    /\ RowsOf(q)[1].id < RowsOf(r)[1].id
    /\ Len(store) = Len(chunks[r]) + Len(chunks[q])

\* C10 as claimed: an input shorter than max_chars yields a single chunk.
C10_ShortInputOneChunk ==
  (cpc = "done" /\ cin # <<>> /\ Len(cin) < cwidth) => Len(cout) = 1

IsBlank(s) == \A i \in DOMAIN s : s[i] \in {" ", "\t", "\n", "\r"}

\* c is what is left of window w once the blanks at its two ends are cut.
IsTrimOf(c, w) ==
  /\ c # <<>> /\ ~IsBlank(<<c[1]>>) /\ ~IsBlank(<<c[Len(c)]>>)
  /\ \E lo \in 1..Len(w) :
       /\ Len(w) >= lo + Len(c) - 1
       /\ c = SubSeq(w, lo, lo + Len(c) - 1)
       /\ IsBlank(SubSeq(w, 1, lo - 1))
       /\ IsBlank(SubSeq(w, lo + Len(c), Len(w)))

\* The k-th max_chars-wide window of s with "\r" and "\n" read as spaces.
NormWindow(s, k, w) ==
  [i \in 1..Min(w, Len(s) - (k - 1) * w) |->
     LET c == s[(k - 1) * w + i] IN IF c \in {"\r", "\n"} THEN " " ELSE c]
NumWindows(s, w) == (Len(s) + w - 1) \div w

RECURSIVE TotalLen(_)
TotalLen(cs) == IF cs = <<>> THEN 0 ELSE Len(Head(cs)) + TotalLen(Tail(cs))

\* C10 as amended: chunk_text(s, max_chars) is, in order, the trimmed
\* contents of the non-blank max_chars-wide windows of the normalized s;
\* every chunk is at most max_chars long and not empty after trimming, the
\* chunks' total length is at most that of s, the empty string yields no
\* chunk, and an input shorter than max_chars yields a single chunk when it
\* holds a non-blank character and no chunk otherwise.
C10_Chunks ==
  cpc = "done" =>
    LET nonblank == {k \in 1..NumWindows(cin, cwidth) :
                       ~IsBlank(NormWindow(cin, k, cwidth))}
    IN /\ Len(cout) = Cardinality(nonblank)
       /\ \A j \in DOMAIN cout :
            LET k == CHOOSE k \in nonblank :
                       Cardinality({m \in nonblank : m <= k}) = j
            IN IsTrimOf(cout[j], NormWindow(cin, k, cwidth))
       /\ \A j \in DOMAIN cout : Len(cout[j]) >= 1 /\ Len(cout[j]) <= cwidth
       /\ TotalLen(cout) <= Len(cin)
       /\ cin = <<>> => cout = <<>>
       /\ Len(cin) < cwidth => Len(cout) = IF IsBlank(cin) THEN 0 ELSE 1

\* A text of several windows, one of them blank and one trimmed at an end,
\* has been chunked.
C10_Witness ==
  /\ cpc = "done" /\ NumWindows(cin, cwidth) >= 2
  /\ Len(cout) >= 1 /\ Len(cout) < NumWindows(cin, cwidth)
  /\ TotalLen(cout) < Len(cin) - cwidth
  /\ \E i \in DOMAIN cin : cin[i] = "\n"

====
